---- MODULE Spec2Model ----
(***************************************************************************)
(* graphql/utils/schema_printer.py: the schema printer.                    *)
(*                                                                         *)
(* Text is a sequence of one-character strings.  None is <<>> and a        *)
(* present value v is <<v>> wherever Python distinguishes None.            *)
(***************************************************************************)
EXTENDS Integers, Sequences, FiniteSets, TLC

VARIABLES
    pc,             \* position of the running call
    result,         \* <<>> while nothing is returned, <<text>> once returned
    \* print_schema / print_introspection_schema
    entry,          \* the entry point that was called
    schema,         \* the schema being printed
    blocks,         \* the list _print_filtered_schema hands to join, as built so far
    idx,            \* number of entries the running comprehension has taken
    sorted_items,   \* sorted(schema.get_type_map().items()), by name
    \* _print_description
    description,    \* definition.description of the definition being printed
    indentation,    \* the indentation argument
    first_in_block, \* the first_in_block argument
    raw_idx,        \* number of raw lines the loop of _description_lines has taken
    line,           \* the loop variable of _description_lines
    sublines,       \* what _break_lines returned in this iteration (<<>>: not called)
    lines,          \* the list of lines built by _description_lines
    \* _print_deprecated
    reason          \* field_or_enum_value.deprecation_reason

schemaVars == <<entry, schema, blocks, idx, sorted_items>>

descVars == <<description, indentation, first_in_block, raw_idx, line, sublines, lines>>

vars == <<pc, result, schemaVars, descVars, reason>>

----------------------------------------------------------------------------
(* Bounds of the explored inputs *)

MaxTypes == 3       \* a type map has at most this many types
MaxDirs == 2        \* a schema has at most this many directives
MaxReasonLen == 3   \* a deprecation reason has at most this many characters more
MaxTokens == 4      \* a description is made of at most this many tokens
MaxIndent == 2      \* indentation is 0..MaxIndent spaces (the code passes "" and "  ")
WordLen == 69       \* length of the long word token

(* Program constants *)

MAX_DESC_LEN == 120

----------------------------------------------------------------------------
(* Text helpers *)

QUOTE == "\""
BACKSLASH == "\\"
NEWLINE == "\n"
SPACE == " "
TAB == "\t"
QQQ == <<QUOTE, QUOTE, QUOTE>>

Max(S) == CHOOSE m \in S : \A k \in S : k <= m

Drop(s, n) == SubSeq(s, n + 1, Len(s))

Spaces(n) == IF n = 0 THEN <<>> ELSE [k \in 1..n |-> SPACE]

RECURSIVE Concat(_)
Concat(ss) == IF ss = <<>> THEN <<>> ELSE Head(ss) \o Concat(Tail(ss))

\* sep.join(ss)
RECURSIVE Join(_, _)
Join(ss, sep) ==
    IF ss = <<>> THEN <<>>
    ELSE IF Len(ss) = 1 THEN ss[1]
    ELSE ss[1] \o sep \o Join(Tail(ss), sep)

Min(S) == CHOOSE m \in S : \A k \in S : m <= k

\* s.split("\n"), from index `from` on
RECURSIVE SplitNewline(_, _)
SplitAtNewline(s, from, nls) ==
    IF nls = {} THEN <<SubSeq(s, from, Len(s))>>
    ELSE <<SubSeq(s, from, Min(nls) - 1)>> \o SplitNewline(s, Min(nls) + 1)

SplitNewline(s, from) == SplitAtNewline(s, from, {k \in from..Len(s) : s[k] = NEWLINE})

----------------------------------------------------------------------------
(* _escape_quote: line.replace('"""', '\\"""'), leftmost non-overlapping *)

\* The indexes at which s holds the three quotes.
Occurrences(s) == {k \in 1..(Len(s) - 2) : SubSeq(s, k, k + 2) = QQQ}

\* str.replace from index `from` on: the leftmost occurrence is replaced and
\* the scan goes on behind it.
RECURSIVE ReplaceFrom(_, _)
ReplaceAmong(s, from, occ) ==
    IF occ = {} THEN SubSeq(s, from, Len(s))
    ELSE SubSeq(s, from, Min(occ) - 1) \o <<BACKSLASH>> \o QQQ
         \o ReplaceFrom(s, Min(occ) + 3)

\* Only the first occurrence is replaced.
ReplaceFrom_FirstOnly(s, from) ==
    IF {k \in Occurrences(s) : k >= from} = {} \/ from > 1 THEN SubSeq(s, from, Len(s))
    ELSE ReplaceAmong(s, from, {k \in Occurrences(s) : k >= from})

ReplaceFrom(s, from) == ReplaceAmong(s, from, {k \in Occurrences(s) : k >= from})

_escape_quote(s) == ReplaceFrom(s, 1)

----------------------------------------------------------------------------
(* _break_lines *)

\* Number of characters "." can take from offset q on, capped at n: it stops
\* at the first of the newlines nls behind q.
DotRunTo(s, q, n, nls) ==
    IF nls = {} THEN (IF Len(s) - q < n THEN Len(s) - q ELSE n)
    ELSE (IF Min(nls) - 1 - q < n THEN Min(nls) - 1 - q ELSE n)

DotRun(s, q, n) == DotRunTo(s, q, n, {k \in (q + 1)..Len(s) : s[k] = NEWLINE})

\* "$": at the end, or before a newline that ends the text.
AtEnd(s, e) == e = Len(s) \/ (e = Len(s) - 1 /\ s[Len(s)] = NEWLINE)

\* The counts c for which .{15,n}(?= |$) succeeds with the body starting at
\* offset q.
BodyCounts(s, q, n) ==
    {c \in 15..DotRun(s, q, n) :
        AtEnd(s, q + c) \/ (q + c < Len(s) /\ s[q + c + 1] = SPACE)}

\* The end of a match, from the counts the body can take behind " " (tried
\* first) and behind "^"; the repeat is greedy.  -1: no match.
GreedyEnd(viaSpace, viaStart, p) ==
    IF viaSpace # {} THEN p + 1 + Max(viaSpace)
    ELSE IF viaStart # {} THEN Max(viaStart)
    ELSE -1

\* End offset of the match of (?: |^).{15,n}(?= |$) that starts at offset p,
\* or -1.
MatchEnd(s, n, p) ==
    GreedyEnd(IF p < Len(s) /\ s[p + 1] = SPACE THEN BodyCounts(s, p + 1, n) ELSE {},
              IF p = 0 THEN BodyCounts(s, 0, n) ELSE {},
              p)

\* re.split with one capturing group: the text between the matches and the
\* matches, in turn.  last is the end of the previous match, where the search
\* for the next one starts; starts are the offsets from there on at which the
\* pattern matches, p the leftmost of them and e the end of the match at p.
RECURSIVE ReSplit(_, _, _)
SplitAt(s, n, last, p, e) ==
    <<SubSeq(s, last + 1, p), SubSeq(s, p + 1, e)>> \o ReSplit(s, n, e)

SplitLeftmost(s, n, last, p) == SplitAt(s, n, last, p, MatchEnd(s, n, p))

SplitAmong(s, n, last, starts) ==
    IF starts = {} THEN <<Drop(s, last)>> ELSE SplitLeftmost(s, n, last, Min(starts))

ReSplit(s, n, last) ==
    SplitAmong(s, n, last, {p \in last..Len(s) : MatchEnd(s, n, p) # -1})

\* The sublines made of the parts, or the line when there are too few parts.
Sublines_SeparatorKept(ln, parts) ==
    IF Len(parts) < 4 THEN <<ln>>
    ELSE <<parts[1] \o parts[2] \o parts[3]>>
         \o [k \in 1..((Len(parts) - 3) \div 2) |-> parts[2 * k + 2] \o parts[2 * k + 3]]

Sublines(ln, parts) ==
    IF Len(parts) < 4 THEN <<ln>>
    ELSE <<parts[1] \o parts[2] \o parts[3]>>
         \o [k \in 1..((Len(parts) - 3) \div 2) |->
               Tail(parts[2 * k + 2]) \o parts[2 * k + 3]]

_break_lines(ln, max_len) ==
    IF Len(ln) < max_len + 5 THEN <<ln>>
    ELSE Sublines(ln, ReSplit(ln, max_len - 40, 0))

----------------------------------------------------------------------------
(* _description_lines *)

\* One iteration of the loop over raw_lines.
AppendLine(ls, ln, max_len) ==
    IF ln = <<>> THEN Append(ls, ln) ELSE ls \o _break_lines(ln, max_len)

RECURSIVE FoldLines(_, _, _)
FoldLines(ls, raw, max_len) ==
    IF raw = <<>> THEN ls
    ELSE FoldLines(AppendLine(ls, Head(raw), max_len), Tail(raw), max_len)

_description_lines(d, max_len) == FoldLines(<<>>, SplitNewline(d, 1), max_len)

----------------------------------------------------------------------------
(* _print_description *)

Opening_NoBlankLine(ind, fib) == ind \o QQQ

\* The opening token.
Opening(ind, fib) ==
    IF ind # <<>> /\ ~fib THEN <<NEWLINE>> \o ind \o QQQ ELSE ind \o QQQ

IsShorthand_Below69(ls) ==
    Len(ls) = 1 /\ Len(ls[1]) < 69 /\ Len(ls[1]) > 0 /\ ls[1][Len(ls[1])] # QUOTE

IsShorthand(ls) ==
    Len(ls) = 1 /\ Len(ls[1]) < 70 /\ Len(ls[1]) > 0 /\ ls[1][Len(ls[1])] # QUOTE

has_leading_space_EmptyBreaks(ls) == ls[1] # <<>> /\ ls[1][1] \in {SPACE, TAB}

has_leading_space(ls) == ls[1] = <<>> \/ ls[1][1] \in {SPACE, TAB}

\* The part of _print_description after the call of _description_lines.
EmitDescription(ls, ind, fib) ==
    IF IsShorthand(ls)
    THEN Opening(ind, fib) \o _escape_quote(ls[1]) \o QQQ \o <<NEWLINE>>
    ELSE Opening(ind, fib)
         \o (IF has_leading_space(ls) THEN <<>> ELSE <<NEWLINE>>)
         \o Concat([k \in 1..Len(ls) |-> _escape_quote(ls[k])])
         \o ind \o QQQ \o <<NEWLINE>>

_print_description(d, ind, fib) ==
    IF d = <<>> THEN <<>>
    ELSE EmitDescription(_description_lines(d, MAX_DESC_LEN - Len(ind)), ind, fib)

----------------------------------------------------------------------------
(* The literal-text service: print_ast(ast_from_value(value)) for a string *)

None == <<>>

DEFAULT_DEPRECATION_REASON == <<"N", "o", " ", "l", "o", "n", "g", "e", "r", " ", "s", "u",
        "p", "p", "o", "r", "t", "e", "d">>

RECURSIVE EscapeLiteral(_)
EscapeLiteral(s) ==
    IF s = <<>> THEN <<>>
    ELSE (IF s[1] \in {QUOTE, BACKSLASH} THEN <<BACKSLASH, s[1]>> ELSE <<s[1]>>)
         \o EscapeLiteral(Tail(s))

LiteralText(value) == <<QUOTE>> \o EscapeLiteral(value) \o <<QUOTE>>

----------------------------------------------------------------------------
(* _print_deprecated *)

_print_deprecated_EmptyAsReason(r) ==
    IF r = None THEN <<>>
    ELSE IF r[1] = DEFAULT_DEPRECATION_REASON THEN <<" ", "@", "d", "e", "p", "r", "e", "c",
            "a", "t", "e", "d">>
    ELSE <<" ", "@", "d", "e", "p", "r", "e", "c", "a", "t", "e", "d", "(", "r", "e", "a",
            "s", "o", "n", ":", " ">> \o LiteralText(r[1]) \o <<")">>

_print_deprecated(r) ==
    IF r = None THEN <<>>
    ELSE IF r[1] \in {<<>>, DEFAULT_DEPRECATION_REASON} THEN <<" ", "@", "d", "e", "p", "r",
            "e", "c", "a", "t", "e", "d">>
    ELSE <<" ", "@", "d", "e", "p", "r", "e", "c", "a", "t", "e", "d", "(", "r", "e", "a",
            "s", "o", "n", ":", " ">> \o LiteralText(r[1]) \o <<")">>

----------------------------------------------------------------------------
(* _print_input_value, _print_args, _print_fields *)

_print_input_value(name, arg) ==
    name \o <<":", " ">> \o arg.type
    \o (IF arg.default_value # None
        THEN <<" ", "=", " ">> \o LiteralText(arg.default_value[1]) ELSE <<>>)

\* One line of a block of described definitions: the description, indented by
\* two and first in its block iff it is the first entry, then the entry.
DescribedLine(d, k, text) ==
    _print_description(d.description, Spaces(2), k = 1) \o Spaces(2) \o text

_print_args(f) ==
    LET args == f.args
    IN  IF args = <<>> THEN <<>>
        ELSE IF \A k \in 1..Len(args) : args[k].description = <<>>
        THEN <<"(">>
             \o Join([k \in 1..Len(args) |-> _print_input_value(args[k].name, args[k])],
                     <<",", " ">>)
             \o <<")">>
        ELSE <<"(", "\n">>
             \o Join([k \in 1..Len(args) |->
                        DescribedLine(args[k], k, _print_input_value(args[k].name, args[k]))],
                     <<NEWLINE>>)
             \o <<"\n", ")">>

_print_fields(t) ==
    Join([k \in 1..Len(t.fields) |->
            LET f == t.fields[k]
            IN  DescribedLine(f, k, f.name \o _print_args(f) \o <<":", " ">> \o f.type
                                    \o _print_deprecated(f.deprecation_reason))],
         <<NEWLINE>>)

----------------------------------------------------------------------------
(* The formatters of the kinds of type, and _print_directive *)

_print_scalar(t) == _print_description(t.description, <<>>, TRUE) \o <<"s", "c", "a", "l",
        "a", "r", " ">> \o t.name

_print_object(t) ==
    LET implemented_interfaces ==
            IF t.interfaces # <<>>
            THEN <<" ", "i", "m", "p", "l", "e", "m", "e", "n", "t", "s",
                    " ">> \o Join(t.interfaces, <<",", " ">>) ELSE <<>>
    IN  _print_description(t.description, <<>>, TRUE) \o <<"t", "y", "p", "e", " ">> \o t.name
        \o implemented_interfaces \o <<" ", "{", "\n">> \o _print_fields(t) \o <<"\n", "}">>

_print_interface(t) ==
    _print_description(t.description, <<>>, TRUE) \o <<"i", "n", "t", "e", "r", "f", "a", "c",
            "e", " ">> \o t.name
    \o <<" ", "{", "\n">> \o _print_fields(t) \o <<"\n", "}">>

_print_union(t) ==
    _print_description(t.description, <<>>, TRUE) \o <<"u", "n", "i", "o", "n",
            " ">> \o t.name \o <<" ", "=", " ">>
    \o Join(t.types, <<" ", "|", " ">>)

_print_enum(t) ==
    LET enum_values_str ==
            Join([k \in 1..Len(t.values) |->
                    LET v == t.values[k]
                    IN  DescribedLine(v, k, v.name \o _print_deprecated(v.deprecation_reason))],
                 <<NEWLINE>>)
    IN  _print_description(t.description, <<>>, TRUE) \o <<"e", "n", "u", "m", " ">> \o t.name
        \o <<" ", "{", "\n">> \o enum_values_str \o <<"\n", "}">>

_print_input_object(t) ==
    LET fields_str ==
            Join([k \in 1..Len(t.fields) |->
                    LET f == t.fields[k]
                    IN  DescribedLine(f, k, _print_input_value(f.name, f))],
                 <<NEWLINE>>)
    IN  _print_description(t.description, <<>>, TRUE) \o <<"i", "n", "p", "u", "t", " ">> \o t.name
        \o <<" ", "{", "\n">> \o fields_str \o <<"\n", "}">>

_print_directive(d) ==
    _print_description(d.description, <<>>, TRUE) \o <<"d", "i", "r", "e", "c", "t", "i", "v",
            "e", " ", "@">> \o d.name
    \o _print_args(d) \o <<" ", "o", "n", " ">> \o Join(d.locations, <<" ", "|", " ">>)

----------------------------------------------------------------------------
(* _print_type: the text, or raised when the assertion fails *)

Returned(text) == [raised |-> FALSE, text |-> text]

Raised == [raised |-> TRUE, text |-> <<>>]

\* The dispatcher without its assertion: what is not of the first five kinds
\* is printed as an input object.
_print_type_NoAssert(t) ==
    IF t.kind = "scalar" THEN Returned(_print_scalar(t))
    ELSE IF t.kind = "object" THEN Returned(_print_object(t))
    ELSE IF t.kind = "interface" THEN Returned(_print_interface(t))
    ELSE IF t.kind = "union" THEN Returned(_print_union(t))
    ELSE IF t.kind = "enum" THEN Returned(_print_enum(t))
    ELSE Returned(_print_input_object(t))

_print_type(t) ==
    IF t.kind = "scalar" THEN Returned(_print_scalar(t))
    ELSE IF t.kind = "object" THEN Returned(_print_object(t))
    ELSE IF t.kind = "interface" THEN Returned(_print_interface(t))
    ELSE IF t.kind = "union" THEN Returned(_print_union(t))
    ELSE IF t.kind = "enum" THEN Returned(_print_enum(t))
    ELSE IF t.kind # "input_object" THEN Raised
    ELSE Returned(_print_input_object(t))

----------------------------------------------------------------------------
(* The filters of the two entry points *)

is_spec_directive(directive_name) ==
    directive_name \in {<<"s", "k", "i", "p">>, <<"i", "n", "c", "l", "u", "d", "e">>, <<"d",
            "e", "p", "r", "e", "c", "a", "t", "e", "d">>}

_is_introspection_type(typename) ==
    Len(typename) >= 2 /\ SubSeq(typename, 1, 2) = <<"_", "_">>

_builtin_scalars == {<<"S", "t", "r", "i", "n", "g">>, <<"B", "o", "o", "l", "e", "a",
        "n">>, <<"I", "n", "t">>, <<"F", "l", "o", "a", "t">>, <<"I", "D">>}

_is_builtin_scalar(typename) == typename \in _builtin_scalars

_is_defined_type_BuiltinsKept(typename) == ~_is_introspection_type(typename)

_is_defined_type(typename) == ~_is_introspection_type(typename) /\ ~_is_builtin_scalar(typename)

\* The directive_filter and type_filter that entry point e passes on.
DirectiveFilter(e, name) ==
    IF e = "print_schema" THEN ~is_spec_directive(name) ELSE is_spec_directive(name)

TypeFilter(e, name) ==
    IF e = "print_schema" THEN _is_defined_type(name) ELSE _is_introspection_type(name)

----------------------------------------------------------------------------
(* _print_schema_definition *)

_print_schema_definition(s) ==
    LET operation_types ==
            (IF s.query # None THEN <<<<" ", " ", "q", "u", "e", "r", "y", ":",
                    " ">> \o s.query[1]>> ELSE <<>>)
            \o (IF s.mutation # None THEN <<<<" ", " ", "m", "u", "t", "a", "t", "i", "o",
                    "n", ":", " ">> \o s.mutation[1]>> ELSE <<>>)
            \o (IF s.subscription # None
                THEN <<<<" ", " ", "s", "u", "b", "s", "c", "r", "i", "p", "t", "i", "o", "n",
                        ":", " ">> \o s.subscription[1]>> ELSE <<>>)
    IN  <<"s", "c", "h", "e", "m", "a", " ", "{",
            "\n">> \o Join(operation_types, <<NEWLINE>>) \o <<"\n", "}">>

----------------------------------------------------------------------------
(* sorted(schema.get_type_map().items()): the names, in the order of str *)

\* The characters of names, in the order of their code points.
CodeOrder ==
    <<"A", "B", "C", "D", "E", "F", "G", "H", "I", "J", "K", "L", "M", "N", "O", "P", "Q",
            "R", "S", "T", "U", "V", "W", "X", "Y", "Z", "_", "a", "b", "c", "d", "e", "f",
                    "g", "h", "i", "j", "k", "l", "m", "n", "o", "p", "q", "r", "s", "t", "u",
                            "v", "w", "x", "y", "z">>

Ord(c) == CHOOSE k \in 1..Len(CodeOrder) : CodeOrder[k] = c

\* a < b for str
RECURSIVE StrLess(_, _)
StrLess(a, b) ==
    IF b = <<>> THEN FALSE
    ELSE IF a = <<>> THEN TRUE
    ELSE IF a[1] = b[1] THEN StrLess(Tail(a), Tail(b))
    ELSE Ord(a[1]) < Ord(b[1])

RECURSIVE Sorted_Descending(_)
Sorted_Descending(names) ==
    IF names = {} THEN <<>>
    ELSE LET last == CHOOSE n \in names : \A m \in names \ {n} : StrLess(m, n)
         IN  <<last>> \o Sorted_Descending(names \ {last})

RECURSIVE Sorted(_)
Sorted(names) ==
    IF names = {} THEN <<>>
    ELSE LET first == CHOOSE n \in names : \A m \in names \ {n} : StrLess(n, m)
         IN  <<first>> \o Sorted(names \ {first})

----------------------------------------------------------------------------
(* Inputs of the schema specification *)

\* A field, argument, input field or enum value.
Def(name, type, desc, args, deprecation_reason, default_value) ==
    [name |-> name, type |-> type, description |-> desc, args |-> args,
     deprecation_reason |-> deprecation_reason, default_value |-> default_value]

Type(kind, name, desc, interfaces, fields, types, values) ==
    [kind |-> kind, name |-> name, description |-> desc, interfaces |-> interfaces,
     fields |-> fields, types |-> types, values |-> values]

Directive(name, desc, args, locations) ==
    [name |-> name, description |-> desc, args |-> args, locations |-> locations]

TypePool == {
    Type("object", <<"Q", "u", "e", "r", "y">>, <<>>, <<<<"N", "o", "d", "e">>>>,
         <<Def(<<"i", "d">>, <<"I", "D", "!">>, <<>>, <<>>, None, None),
           Def(<<"p", "e", "t">>, <<"P", "e", "t">>, <<>>,
               <<Def(<<"n", "a", "m", "e">>, <<"S", "t", "r", "i", "n",
                       "g">>, <<>>, <<>>, None, <<<<"r", "e", "x">>>>),
                 Def(<<"a", "t">>, <<"P", "o", "i", "n", "t">>, <<>>, <<>>, None, None)>>,
               None, None)>>,
         <<>>, <<>>),
    Type("object", <<"M", "u", "t", "a", "t", "i", "o", "n">>, <<>>, <<>>,
         <<Def(<<"s", "e", "t">>, <<"B", "o", "o", "l", "e", "a", "n">>, <<"S", "e", "t", "s",
                 " ", "\"", "\"", "\"", "i", "t", "\"", "\"", "\"">>,
               <<Def(<<"k", "e", "y">>, <<"S", "t", "r", "i", "n", "g">>, <<"T", "h", "e",
                       " ", "k", "e", "y">>, <<>>, None, None),
                 Def(<<"t", "t", "l">>, <<"I", "n", "t">>, <<>>, <<>>, None, None)>>,
               <<DEFAULT_DEPRECATION_REASON>>, None),
           Def(<<"p", "u", "t">>, <<"B", "o", "o", "l", "e", "a", "n">>, <<"P", "u", "t", "s",
                   " ", "i", "t">>, <<>>, <<<<"u", "s", "e", " ", "\"", "s", "e", "t",
                           "\"">>>>, None)>>,
         <<>>, <<>>),
    Type("object", <<"S", "u", "b", "s", "c", "r", "i", "p", "t", "i", "o", "n">>, <<"E", "v",
            "e", "n", "t", "s", "\n", "o", "f", " ", "t", "h", "e", " ", "s", "c", "h", "e",
                    "m", "a">>, <<>>,
         <<Def(<<"t", "i", "c", "k">>, <<"I", "n", "t">>, <<>>, <<>>, <<(<<>>)>>, None)>>,
         <<>>, <<>>),
    Type("interface", <<"N", "o", "d", "e">>, <<"A", "n", " ", "o", "b", "j", "e", "c", "t",
            " ", "w", "i", "t", "h", " ", "a", "n", " ", "i", "d">>, <<>>,
         <<Def(<<"i", "d">>, <<"I", "D", "!">>, <<"T", "h", "e", " ", "i",
                 "d">>, <<>>, None, None)>>,
         <<>>, <<>>),
    Type("union", <<"P", "e", "t">>, <<>>, <<>>, <<>>, <<<<"Q", "u", "e", "r", "y">>, <<"M",
            "u", "t", "a", "t", "i", "o", "n">>>>, <<>>),
    Type("enum", <<"C", "o", "l", "o", "r">>, <<>>, <<>>, <<>>, <<>>,
         <<Def(<<"R", "E", "D">>, <<>>, <<>>, <<>>, None, None),
           Def(<<"G", "R", "E", "E", "N">>, <<>>, <<"G", "r", "e", "e", "n">>, <<>>, <<<<"u",
                   "s", "e", " ", "R", "E", "D">>>>, None)>>),
    Type("input_object", <<"P", "o", "i", "n", "t">>, <<>>, <<>>,
         <<Def(<<"x">>, <<"I", "n", "t">>, <<"T", "h", "e", " ", "x">>, <<>>, None, None),
           Def(<<"l", "a", "b", "e", "l">>, <<"S", "t", "r", "i", "n",
                   "g">>, <<>>, <<>>, None, <<<<"o", "r", "i", "g", "i", "n">>>>)>>,
         <<>>, <<>>),
    Type("scalar", <<"D", "a", "t", "e">>, <<"A", "n", " ", "I", "S", "O", " ", "\"", "d",
            "a", "t", "e", "\"">>, <<>>, <<>>, <<>>, <<>>),
    Type("scalar", <<"S", "t", "r", "i", "n", "g">>, <<>>, <<>>, <<>>, <<>>, <<>>),
    Type("scalar", <<"_", "S", "i", "n", "g", "l", "e">>, <<>>, <<>>, <<>>, <<>>, <<>>),
    Type("object", <<"_", "_", "T", "y", "p", "e">>, <<>>, <<>>,
         <<Def(<<"n", "a", "m", "e">>, <<"S", "t", "r", "i", "n", "g">>, <<>>, <<>>, None, None)>>,
         <<>>, <<>>),
    Type("other", <<"Z", "e", "d">>, <<>>, <<>>, <<>>, <<>>, <<>>),
    Type("other", <<"_", "_", "O", "d", "d">>, <<>>, <<>>, <<>>, <<>>, <<>>)}

DirectivePool == {
    Directive(<<"s", "k", "i", "p">>, <<"S", "k", "i", "p", "s", " ", "t", "h", "e", " ", "f",
            "i", "e", "l", "d">>,
              <<Def(<<"i", "f">>, <<"B", "o", "o", "l", "e", "a", "n", "!">>, <<"S", "k", "i",
                      "p", "p", "e", "d", " ", "w", "h", "e", "n", " ", "t", "r", "u",
                              "e">>, <<>>, None, None)>>,
              <<<<"F", "I", "E", "L", "D">>, <<"F", "R", "A", "G", "M", "E", "N", "T", "_",
                      "S", "P", "R", "E", "A", "D">>>>),
    Directive(<<"d", "e", "p", "r", "e", "c", "a", "t", "e", "d">>, <<>>,
              <<Def(<<"r", "e", "a", "s", "o", "n">>, <<"S", "t", "r", "i", "n",
                      "g">>, <<>>, <<>>, None,
                    <<DEFAULT_DEPRECATION_REASON>>)>>,
              <<<<"F", "I", "E", "L", "D", "_", "D", "E", "F", "I", "N", "I", "T", "I", "O",
                      "N">>, <<"E", "N", "U", "M", "_", "V", "A", "L", "U", "E">>>>),
    Directive(<<"a", "u", "t", "h">>, <<>>, <<>>, <<<<"O", "B", "J", "E", "C", "T">>>>)}

\* The sequences without repetition of at most n members of S.
RECURSIVE Arrangements(_, _)
Arrangements(S, n) ==
    IF n = 0 THEN {<<>>}
    ELSE LET shorter == Arrangements(S, n - 1)
         IN  shorter \cup {Append(q, x) : q \in shorter, x \in S}

DirectiveLists ==
    {q \in Arrangements(DirectivePool, MaxDirs) :
        \A i, j \in 1..Len(q) : i # j => q[i] # q[j]}

TypeSets == {S \in SUBSET TypePool : Cardinality(S) <= MaxTypes}

\* The root type of the given name, when the type map has it.
Root(S, name) == IF \E t \in S : t.name = name THEN <<name>> ELSE None

Schema(S, directives) ==
    [query |-> Root(S, <<"Q", "u", "e", "r", "y">>),
     mutation |-> Root(S, <<"M", "u", "t", "a", "t", "i", "o", "n">>),
     subscription |-> Root(S, <<"S", "u", "b", "s", "c", "r", "i", "p", "t", "i", "o", "n">>),
     directives |-> directives,
     type_map |-> [n \in {t.name : t \in S} |-> CHOOSE t \in S : t.name = n]]

Block(kind, name, text) == [kind |-> kind, name |-> name, text |-> text]

SchemaIdle ==
    /\ entry = "none"
    /\ schema = Schema({}, <<>>)
    /\ blocks = <<>>
    /\ idx = 0
    /\ sorted_items = <<>>

DescIdle ==
    /\ description = <<>>
    /\ indentation = <<>>
    /\ first_in_block = TRUE
    /\ raw_idx = 0
    /\ line = <<>>
    /\ sublines = <<>>
    /\ lines = <<>>

----------------------------------------------------------------------------
(* The schema specification: one call of print_schema or of                *)
(* print_introspection_schema, that is of _print_filtered_schema           *)

Init ==
    /\ pc = "start"
    /\ result = <<>>
    /\ entry \in {"print_schema", "print_introspection_schema"}
    /\ \E S \in TypeSets, directives \in DirectiveLists : schema = Schema(S, directives)
    /\ blocks = <<>>
    /\ idx = 0
    /\ sorted_items = <<>>
    /\ DescIdle
    /\ reason = None

\* [_print_schema_definition(schema)]
SchemaDefinition ==
    /\ pc = "start"
    /\ blocks' = <<Block("schema", <<>>, _print_schema_definition(schema))>>
    /\ idx' = 0
    /\ pc' = "directives"
    /\ UNCHANGED <<result, entry, schema, sorted_items, descVars, reason>>

\* one directive of the comprehension over schema.get_directives()
DirectiveStep ==
    /\ pc = "directives"
    /\ idx < Len(schema.directives)
    /\ LET directive == schema.directives[idx + 1]
       IN  blocks' = IF DirectiveFilter(entry, directive.name)
                     THEN Append(blocks, Block("directive", directive.name,
                                               _print_directive(directive)))
                     ELSE blocks
    /\ idx' = idx + 1
    /\ UNCHANGED <<pc, result, entry, schema, sorted_items, descVars, reason>>

\* sorted(schema.get_type_map().items())
SortTypeMap ==
    /\ pc = "directives"
    /\ idx = Len(schema.directives)
    /\ sorted_items' = Sorted(DOMAIN schema.type_map)
    /\ idx' = 0
    /\ pc' = "types"
    /\ UNCHANGED <<result, entry, schema, blocks, descVars, reason>>

\* one entry of the comprehension over the sorted items, when _print_type
\* returns or is not called
TypeStep ==
    /\ pc = "types"
    /\ idx < Len(sorted_items)
    /\ LET typename == sorted_items[idx + 1]
           printed == _print_type(schema.type_map[typename])
       IN  /\ TypeFilter(entry, typename) => ~printed.raised
           /\ blocks' = IF TypeFilter(entry, typename)
                        THEN Append(blocks, Block("type", typename, printed.text))
                        ELSE blocks
    /\ idx' = idx + 1
    /\ UNCHANGED <<pc, result, entry, schema, sorted_items, descVars, reason>>

\* one entry of the comprehension, when the assertion of _print_type fails:
\* the AssertionError leaves _print_filtered_schema and the entry point
TypeAssertionError ==
    /\ pc = "types"
    /\ idx < Len(sorted_items)
    /\ LET typename == sorted_items[idx + 1]
       IN  /\ TypeFilter(entry, typename)
           /\ _print_type(schema.type_map[typename]).raised
    /\ pc' = "raised"
    /\ UNCHANGED <<result, schemaVars, descVars, reason>>

\* "\n\n".join(...) + "\n", returned
JoinBlocks ==
    /\ pc = "types"
    /\ idx = Len(sorted_items)
    /\ result' = <<Join([k \in 1..Len(blocks) |-> blocks[k].text], <<NEWLINE, NEWLINE>>)
                   \o <<NEWLINE>>>>
    /\ pc' = "done"
    /\ UNCHANGED <<schemaVars, descVars, reason>>

Next ==
    \/ SchemaDefinition
    \/ DirectiveStep
    \/ SortTypeMap
    \/ TypeStep
    \/ TypeAssertionError
    \/ JoinBlocks

Spec == Init /\ [][Next]_vars

----------------------------------------------------------------------------
(* Inputs of the description specification *)

Word == [k \in 1..WordLen |-> "a"]

Tokens == {<<"a">>, <<SPACE>>, <<TAB>>, <<QUOTE>>, <<BACKSLASH>>, <<NEWLINE>>,
           QQQ, Word}

TokenSeqs == UNION {[1..n -> Tokens] : n \in 0..MaxTokens}

Descriptions == {Concat(ts) : ts \in TokenSeqs}

Indentations == {Spaces(n) : n \in 0..MaxIndent}

RawLines == SplitNewline(description, 1)

----------------------------------------------------------------------------
(* The description specification: one call of _print_description *)

DescInit ==
    /\ pc = "desc_start"
    /\ description \in Descriptions
    /\ indentation \in Indentations
    /\ first_in_block \in BOOLEAN
    /\ raw_idx = 0
    /\ line = <<>>
    /\ sublines = <<>>
    /\ lines = <<>>
    /\ result = <<>>
    /\ SchemaIdle
    /\ reason = None

\* if not definition.description: return ""
DescReturnEmpty ==
    /\ pc = "desc_start"
    /\ description = <<>>
    /\ pc' = "desc_done"
    /\ result' = <<(<<>>)>>
    /\ UNCHANGED <<descVars, schemaVars, reason>>

\* the call of _description_lines, up to its loop
DescSplit ==
    /\ pc = "desc_start"
    /\ description # <<>>
    /\ pc' = "desc_loop"
    /\ UNCHANGED <<result, descVars, schemaVars, reason>>

\* one iteration of the loop of _description_lines
DescLoop ==
    /\ pc = "desc_loop"
    /\ raw_idx < Len(RawLines)
    /\ LET ln == RawLines[raw_idx + 1]
           max_len == MAX_DESC_LEN - Len(indentation)
       IN  /\ line' = ln
           /\ sublines' = IF ln = <<>> THEN <<>> ELSE _break_lines(ln, max_len)
           /\ lines' = AppendLine(lines, ln, max_len)
    /\ raw_idx' = raw_idx + 1
    /\ UNCHANGED <<pc, result, description, indentation, first_in_block, schemaVars,
                   reason>>

\* the rest of _print_description, once _description_lines has returned
DescEmit ==
    /\ pc = "desc_loop"
    /\ raw_idx = Len(RawLines)
    /\ pc' = "desc_done"
    /\ result' = <<EmitDescription(lines, indentation, first_in_block)>>
    /\ UNCHANGED <<descVars, schemaVars, reason>>

DescNext == DescReturnEmpty \/ DescSplit \/ DescLoop \/ DescEmit

SpecDesc == DescInit /\ [][DescNext]_vars

----------------------------------------------------------------------------
(* The deprecation specification: one call of _print_deprecated *)

ReasonChars == {"a", SPACE, QUOTE, BACKSLASH}

ReasonTails == UNION {[1..n -> ReasonChars] : n \in 0..MaxReasonLen}

\* None, and the texts that start with nothing or with the default reason.
Reasons ==
    {None} \cup {<<s>> : s \in ReasonTails}
           \cup {<<DEFAULT_DEPRECATION_REASON \o s>> : s \in ReasonTails}

DepInit ==
    /\ pc = "dep_start"
    /\ result = <<>>
    /\ reason \in Reasons
    /\ SchemaIdle
    /\ DescIdle

DepReturn ==
    /\ pc = "dep_start"
    /\ result' = <<_print_deprecated(reason)>>
    /\ pc' = "dep_done"
    /\ UNCHANGED <<schemaVars, descVars, reason>>

DepNext == DepReturn

SpecDep == DepInit /\ [][DepNext]_vars

----------------------------------------------------------------------------
(* Properties of print_schema and print_introspection_schema *)

BlocksOf(kind) == SelectSeq(blocks, LAMBDA b : b.kind = kind)

BlockNames(kind) == [k \in 1..Len(BlocksOf(kind)) |-> BlocksOf(kind)[k].name]

Range(q) == {q[k] : k \in 1..Len(q)}

NoRepeat(q) == \A i, j \in 1..Len(q) : i # j => q[i] # q[j]

StartsWithTwoUnderscores(n) == Len(n) >= 2 /\ n[1] = "_" /\ n[2] = "_"

FiveBuiltinScalars == {<<"S", "t", "r", "i", "n", "g">>, <<"B", "o", "o", "l", "e", "a",
        "n">>, <<"I", "n", "t">>, <<"F", "l", "o", "a", "t">>, <<"I", "D">>}

ThreeSpecDirectives == {<<"s", "k", "i", "p">>, <<"i", "n", "c", "l", "u", "d", "e">>, <<"d",
        "e", "p", "r", "e", "c", "a", "t", "e", "d">>}

\* The names of the type map that the entry point is to print.
ExpectedTypeNames ==
    IF entry = "print_schema"
    THEN {n \in DOMAIN schema.type_map :
            ~StartsWithTwoUnderscores(n) /\ n \notin FiveBuiltinScalars}
    ELSE {n \in DOMAIN schema.type_map : StartsWithTwoUnderscores(n)}

\* The directives that the entry point is to print, in declaration order.
ExpectedDirectives ==
    SelectSeq(schema.directives,
              LAMBDA d : (entry = "print_schema") # (d.name \in ThreeSpecDirectives))

\* a comes before b in the lexicographic order of the code points.
LexLess(a, b) ==
    \E i \in 1..Len(b) :
        /\ \A j \in 1..(i - 1) : j <= Len(a) /\ a[j] = b[j]
        /\ (i = Len(a) + 1 \/ (i <= Len(a) /\ Ord(a[i]) < Ord(b[i])))

\* C1: the type blocks print_schema emits are, each once, the entries of the
\* type map whose name neither starts with __ nor is one of String, Boolean,
\* Int, Float, ID; those print_introspection_schema emits are, each once, the
\* entries whose name starts with __.
C1_TypeBlocks ==
    pc = "done"
        => /\ NoRepeat(BlockNames("type"))
           /\ Range(BlockNames("type")) = ExpectedTypeNames

C1_Witness ==
    /\ pc = "done"
    /\ entry = "print_schema"
    /\ \E n \in DOMAIN schema.type_map : StartsWithTwoUnderscores(n)
    /\ \E n \in DOMAIN schema.type_map : n \in FiveBuiltinScalars
    /\ Len(BlocksOf("type")) >= 1
    /\ Cardinality(DOMAIN schema.type_map) >= 3

\* C2: the output is the schema definition block, then the blocks of the
\* directives that pass the directive filter in declaration order, then the
\* blocks of the types that pass the type filter in the lexicographic order of
\* their names; the blocks are joined by one blank line and the text ends
\* with exactly one newline.
C2_Layout ==
    pc = "done"
        => /\ blocks = <<Block("schema", <<>>, _print_schema_definition(schema))>>
                       \o BlocksOf("directive") \o BlocksOf("type")
           /\ BlocksOf("directive")
                = [k \in 1..Len(ExpectedDirectives) |->
                     Block("directive", ExpectedDirectives[k].name,
                           _print_directive(ExpectedDirectives[k]))]
           /\ Range(BlockNames("type")) = ExpectedTypeNames
           /\ \A k \in 1..(Len(BlocksOf("type")) - 1) :
                LexLess(BlockNames("type")[k], BlockNames("type")[k + 1])
           /\ \A k \in 1..Len(BlocksOf("type")) :
                BlocksOf("type")[k].text
                    = _print_type(schema.type_map[BlocksOf("type")[k].name]).text
           /\ result = <<Join([k \in 1..Len(blocks) |-> blocks[k].text],
                              <<NEWLINE, NEWLINE>>) \o <<NEWLINE>>>>
           /\ result[1][Len(result[1])] = NEWLINE
           /\ result[1][Len(result[1]) - 1] # NEWLINE

C2_Witness ==
    /\ pc = "done"
    /\ Len(schema.directives) = 2
    /\ Len(BlocksOf("directive")) = 1
    /\ Len(BlocksOf("type")) >= 2
    /\ Cardinality(DOMAIN schema.type_map) > Len(BlocksOf("type"))

RecognisedKinds == {"scalar", "object", "interface", "union", "enum", "input_object"}

\* Some type that passes the type filter of the entry point is of no
\* recognised kind.
UnrecognisedTypeReachesDispatcher ==
    \E n \in ExpectedTypeNames : schema.type_map[n].kind \notin RecognisedKinds

\* C7: when a type of no recognised kind reaches _print_type, the call never
\* returns a text, neither one that leaves the type out nor a part of the
\* output: the comprehension over the types never comes to its end, and the
\* call is either still running or has failed.
C7_FailsWithoutText ==
    UnrecognisedTypeReachesDispatcher
        => /\ result = <<>>
           /\ pc \in {"start", "directives", "types", "raised"}
           /\ pc = "types" => idx < Len(sorted_items)

C7_Witness ==
    /\ pc = "raised"
    /\ result = <<>>
    /\ Len(BlocksOf("type")) >= 1
    /\ Len(BlocksOf("directive")) >= 1
    /\ idx < Len(sorted_items) - 1

----------------------------------------------------------------------------
(* Properties of _print_description, _escape_quote and _break_lines *)

DescDone == pc = "desc_done" /\ description # <<>>

Out == result[1]

Last(s) == s[Len(s)]

\* The text in front of the opening quotes.
Lead == IF indentation # <<>> /\ ~first_in_block THEN <<NEWLINE>> ELSE <<>>

\* The single-line case of the description formatter.
SingleLineCase ==
    Len(lines) = 1 /\ Len(lines[1]) > 0 /\ Len(lines[1]) < 70 /\ Last(lines[1]) # QUOTE

\* The occurrences a left-to-right scan without overlap finds: those at a
\* multiple of three from the start of their run of quotes.
RunStart(s, k) == Min({r \in 1..k : \A x \in r..k : s[x] = QUOTE})

ScanOccurrences(s) == {k \in Occurrences(s) : (k - RunStart(s, k)) % 3 = 0}

EscapedLen(s) == Len(s) + Cardinality(ScanOccurrences(s))

RECURSIVE SumEscapedLen(_, _)
SumEscapedLen(ls, n) == IF n = 0 THEN 0 ELSE EscapedLen(ls[n]) + SumEscapedLen(ls, n - 1)

\* Length of the closing delimiter with its newline.
ClosingLen == IF SingleLineCase THEN 4 ELSE Len(indentation) + 4

\* Index in Out of the character before the first character of lines[j].
LineBase(j) ==
    Len(Out) - ClosingLen - SumEscapedLen(lines, Len(lines)) + SumEscapedLen(lines, j - 1)

\* Index in Out of character i of lines[j].
OutPos(j, i) ==
    LineBase(j) + i + Cardinality({r \in ScanOccurrences(lines[j]) : r <= i})

EscapedAt(j, i) ==
    /\ OutPos(j, i) > 1
    /\ Out[OutPos(j, i) - 1] = BACKSLASH
    /\ SubSeq(Out, OutPos(j, i), OutPos(j, i) + 2) = QQQ

\* C3 as stated: every description without three quotes in a row and under
\* 70 characters is rendered in the single-line shorthand form.
C3_Original ==
    (DescDone /\ Occurrences(description) = {} /\ Len(description) < 70)
        => Out \in {indentation \o QQQ \o description \o QQQ \o <<NEWLINE>>,
                    <<NEWLINE>> \o indentation \o QQQ \o description \o QQQ \o <<NEWLINE>>}

\* C3 amended: every non-empty description without three quotes in a row,
\* without a line break, not ending in a quote and under 70 characters is
\* rendered on one line as indentation, opening quotes, the text, closing
\* quotes and a newline (after a newline when the indentation is non-empty
\* and the definition is not the first of its block).
C3_Shorthand ==
    (/\ DescDone
     /\ Occurrences(description) = {}
     /\ Len(description) < 70
     /\ \A k \in 1..Len(description) : description[k] # NEWLINE
     /\ Last(description) # QUOTE)
        => Out = Lead \o indentation \o QQQ \o description \o QQQ \o <<NEWLINE>>

C3_Witness ==
    /\ DescDone
    /\ Occurrences(description) = {}
    /\ Len(description) = WordLen
    /\ Len(description) < 70
    /\ \A k \in 1..Len(description) : description[k] # NEWLINE
    /\ Last(description) # QUOTE
    /\ indentation # <<>>
    /\ ~first_in_block

\* C4 as stated: every occurrence of three quotes in the description text,
\* overlapping ones included, is in the output immediately preceded by a
\* backslash.
C4_Original ==
    DescDone => \A j \in 1..Len(lines) : \A i \in Occurrences(lines[j]) : EscapedAt(j, i)

\* C4 amended: every occurrence of three quotes that a left-to-right scan
\* without overlap finds in a line of the description is in the output
\* immediately preceded by a backslash.
C4_ScanEscaped ==
    DescDone => \A j \in 1..Len(lines) : \A i \in ScanOccurrences(lines[j]) : EscapedAt(j, i)

C4_Witness ==
    /\ DescDone
    /\ \E j \in 1..Len(lines) : Cardinality(ScanOccurrences(lines[j])) >= 2
    /\ \E j \in 1..Len(lines) : Occurrences(lines[j]) # ScanOccurrences(lines[j])

\* The places behind the opening quotes at which Out holds three quotes not
\* preceded by a backslash.
OpeningEnd == Len(Lead) + Len(indentation) + 3

Unescaped == {i \in (OpeningEnd + 1)..(Len(Out) - 2) :
                 SubSeq(Out, i, i + 2) = QQQ /\ Out[i - 1] # BACKSLASH}

\* C5: the output for a non-empty description is a valid block string: the
\* first three quotes behind the opening that no backslash precedes are the
\* closing delimiter, which the printer appended last.
C5_ValidBlockString ==
    DescDone => (Unescaped # {} /\ Min(Unescaped) = Len(Out) - 3)

\* C8 as stated: in the single-line case the output is indentation, opening
\* quotes, the escaped line, closing quotes and a newline, with nothing in
\* front, also when first_in_block is false.
C8_Original ==
    (DescDone /\ SingleLineCase)
        => Out = indentation \o QQQ \o _escape_quote(lines[1]) \o QQQ \o <<NEWLINE>>

\* C8 amended: in the single-line case the output is indentation, opening
\* quotes, the escaped line, closing quotes and a newline, preceded by a
\* newline when the indentation is non-empty and first_in_block is false.
C8_SingleLine ==
    (DescDone /\ SingleLineCase)
        => Out = Lead \o indentation \o QQQ \o _escape_quote(lines[1]) \o QQQ \o <<NEWLINE>>

C8_Witness ==
    /\ DescDone
    /\ SingleLineCase
    /\ Occurrences(lines[1]) # {}
    /\ indentation # <<>>
    /\ ~first_in_block

\* C9 as stated: in the multi-line form a line break follows the opening
\* quotes whenever the first line does not start with whitespace, also when
\* the first line is empty.
C9_Original ==
    (DescDone /\ ~SingleLineCase /\ (lines[1] = <<>> \/ lines[1][1] \notin {SPACE, TAB}))
        => Out[OpeningEnd + 1] = NEWLINE

\* C9 amended: in the multi-line form a line break follows the opening quotes
\* whenever the first line is non-empty and starts with neither a space nor a
\* tab; when the first line is empty no line break follows them.
C9_LineBreak ==
    (DescDone /\ ~SingleLineCase)
        => /\ (lines[1] # <<>> /\ lines[1][1] \notin {SPACE, TAB})
                => Out[OpeningEnd + 1] = NEWLINE
           /\ lines[1] = <<>> => Out[OpeningEnd + 1] # NEWLINE

C9_Witness ==
    /\ DescDone
    /\ ~SingleLineCase
    /\ Len(lines) >= 2
    /\ lines[1] # <<>>
    /\ lines[1][1] \notin {SPACE, TAB}
    /\ Out[OpeningEnd + 1] = NEWLINE

\* C10: joining the sublines _break_lines returns with one space gives back
\* the line.
C10_JoinRestores ==
    (pc = "desc_loop" /\ sublines # <<>>) => Join(sublines, <<SPACE>>) = line

C10_Witness ==
    /\ pc = "desc_loop"
    /\ Len(sublines) >= 2
    /\ Len(sublines[1]) > WordLen
    /\ Len(sublines[2]) >= WordLen

----------------------------------------------------------------------------
(* Properties of _print_deprecated *)

\* C6: _print_deprecated returns the empty text for the reason None, the bare
\* annotation for the empty reason and for the default reason, and for any
\* other reason the annotation with the reason as the string literal of the
\* literal-text service.
C6_Deprecated ==
    pc = "dep_done"
        => result[1] =
             IF reason = None THEN <<>>
             ELSE IF reason[1] = <<>> \/ reason[1] = DEFAULT_DEPRECATION_REASON
             THEN <<" ", "@", "d", "e", "p", "r", "e", "c", "a", "t", "e", "d">>
             ELSE <<" ", "@", "d", "e", "p", "r", "e", "c", "a", "t", "e", "d", "(", "r", "e",
                     "a", "s", "o", "n", ":", " ">> \o LiteralText(reason[1]) \o <<")">>

C6_Witness ==
    /\ pc = "dep_done"
    /\ reason # None
    /\ Len(reason[1]) > Len(DEFAULT_DEPRECATION_REASON)
    /\ SubSeq(reason[1], 1, Len(DEFAULT_DEPRECATION_REASON)) = DEFAULT_DEPRECATION_REASON
    /\ QUOTE \in {reason[1][k] : k \in 1..Len(reason[1])}
    /\ Len(result[1]) > Len(reason[1]) + 20

====
